---- MODULE Spec2Model ----
(***************************************************************************)
(* Model of the decline-curve engine of prodpy:                            *)
(*   prodpy/decline/_arpmod.py          class Arps                         *)
(*   prodpy/decline/arps/_hyperbolic.py class Hyperbolic                   *)
(*   prodpy/_analysis.py                class Analysis                     *)
(*                                                                         *)
(* The engine is synchronous and keeps no state between calls except the   *)
(* exponent stored by the constructor of Arps.  A behaviour is therefore a *)
(* constructed object followed by one call; the call's operation, its      *)
(* arguments and its outcome (value returned or exception raised, messages *)
(* logged) are the state.  In the state the value a call returns is held   *)
(* in a field named after what it is (name, b, pair, y, Np, xy, linear,    *)
(* R2, result, fitted, fits, frame).                                       *)
(*                                                                         *)
(* Real numbers are exact rationals <<n, d>> in lowest terms with d > 0;   *)
(* the IEEE specials are <<1,0>> (inf), <<-1,0>> (-inf) and <<0,0>> (NaN). *)
(* Python strings are sequences of one-character strings.  None is <<>>.   *)
(***************************************************************************)
EXTENDS Integers, Sequences, FiniteSets, TLC

VARIABLES self_b, self_xp, op, arg, ret

vars == <<self_b, self_xp, op, arg, ret>>

(***************************************************************************)
(* Bounds of the model.                                                    *)
(***************************************************************************)
MaxX == 3

MaxLen == 3

MaxObs == 3

MaxItems == 2

MaxPeriods == 2

(***************************************************************************)
(* Python values.                                                          *)
(***************************************************************************)
None == <<>>

Return(v, msgs) == [kind |-> "return", val |-> v, exc |-> "", log |-> msgs]

Raise(e, msgs) == [kind |-> "raise", val |-> None, exc |-> e, log |-> msgs]

NoCall == [kind |-> "none", exc |-> "", log |-> <<>>, none |-> TRUE]

NoArg == [none |-> TRUE]

\* the outcome of a call that returns nothing
Done == [kind |-> "return", exc |-> "", log |-> <<>>, none |-> TRUE]

(***************************************************************************)
(* The outcome r of a call, its value held in the field named after what   *)
(* the call returns.                                                       *)
(***************************************************************************)
\* a family name (get_mode)
As_name(r) == [kind |-> r.kind, exc |-> r.exc, log |-> r.log, name |-> r.val]

\* an exponent or None (get_b)
As_b(r) == [kind |-> r.kind, exc |-> r.exc, log |-> r.log, b |-> r.val]

\* the (mode, b) pair (option)
As_pair(r) == [kind |-> r.kind, exc |-> r.exc, log |-> r.log, pair |-> r.val]

\* the rates (frw)
As_y(r) == [kind |-> r.kind, exc |-> r.exc, log |-> r.log, y |-> r.val]

\* the cumulative volumes (cum)
As_Np(r) == [kind |-> r.kind, exc |-> r.exc, log |-> r.log, Np |-> r.val]

\* the fitted Result (inv)
As_result(r) == [kind |-> r.kind, exc |-> r.exc, log |-> r.log, result |-> r.val]

\* the (x, y) arrays (shift, nzero)
As_xy(r) == [kind |-> r.kind, exc |-> r.exc, log |-> r.log, xy |-> r.val]

\* the LinregressResult or None (regress)
As_linear(r) == [kind |-> r.kind, exc |-> r.exc, log |-> r.log, linear |-> r.val]

\* the score (rsquared)
As_R2(r) == [kind |-> r.kind, exc |-> r.exc, log |-> r.log, R2 |-> r.val]

\* the fitted model (fit)
As_fitted(r) == [kind |-> r.kind, exc |-> r.exc, log |-> r.log, fitted |-> r.val]

\* the stream of (item, model) pairs (mfit)
As_fits(r) == [kind |-> r.kind, exc |-> r.exc, log |-> r.log, fits |-> r.val]

\* the forecast table (run, mrun)
As_frame(r) == [kind |-> r.kind, exc |-> r.exc, log |-> r.log, frame |-> r.val]

\* the fitted Result of Hyperbolic.regress, with the input it hands to the
\* least-squares step
As_fitting(r, inp) ==
    [kind |-> r.kind, exc |-> r.exc, log |-> r.log, result |-> r.val, lsq |-> inp]

(***************************************************************************)
(* Exact arithmetic with the IEEE specials.                                *)
(***************************************************************************)
Abs(n) == IF n < 0 THEN -n ELSE n

Sign(n) == IF n < 0 THEN -1 ELSE IF n > 0 THEN 1 ELSE 0

Min(a, b) == IF a < b THEN a ELSE b

RECURSIVE Gcd(_, _)
Gcd(a, b) == IF b = 0 THEN a ELSE Gcd(b, a % b)

Q(n, d) ==
    IF d = 0 THEN <<Sign(n), 0>>
    ELSE LET g == Gcd(Abs(n), Abs(d))
             s == IF d < 0 THEN -1 ELSE 1
         IN  <<(s * n) \div g, (s * d) \div g>>

I(n) == <<n, 1>>

NaN == <<0, 0>>

Inf == <<1, 0>>

NInf == <<-1, 0>>

IsNaN(a) == a = NaN

IsFinite(a) == a[2] # 0

Add(a, b) ==
    IF IsNaN(a) \/ IsNaN(b) THEN NaN
    ELSE IF a[2] = 0 /\ b[2] = 0 THEN (IF a = b THEN a ELSE NaN)
    ELSE IF a[2] = 0 THEN a
    ELSE IF b[2] = 0 THEN b
    ELSE Q(a[1] * b[2] + b[1] * a[2], a[2] * b[2])

Neg(a) == <<-a[1], a[2]>>

Sub(a, b) == Add(a, Neg(b))

Mul(a, b) == Q(a[1] * b[1], a[2] * b[2])

Inv(a) == Q(a[2], a[1])

Div(a, b) == Mul(a, Inv(b))

Lt(a, b) ==
    /\ ~IsNaN(a)
    /\ ~IsNaN(b)
    /\ IF a[2] = 0 \/ b[2] = 0
       THEN a # b /\ (a = NInf \/ b = Inf)
       ELSE a[1] * b[2] < b[1] * a[2]

Gt(a, b) == Lt(b, a)

Ge(a, b) == ~IsNaN(a) /\ ~IsNaN(b) /\ ~Lt(a, b)

RECURSIVE PowNat(_, _)
PowNat(a, k) == IF k = 0 THEN I(1) ELSE Mul(a, PowNat(a, k - 1))

PowInt(a, k) == IF k < 0 THEN Inv(PowNat(a, -k)) ELSE PowNat(a, k)

RECURSIVE IntPow(_, _)
IntPow(n, k) == IF k = 0 THEN 1 ELSE n * IntPow(n, k - 1)

\* the exact k-th root of a non-negative integer that has one
RootNat(n, k) == CHOOSE r \in 0..n : IntPow(r, k) = n

\* numpy.power(a, e) for a rational exponent e: 1 for e = 0, NaN for a
\* negative base and a fractional exponent, the exact value otherwise
Pow(a, e) ==
    IF e = <<0, 1>> THEN <<1, 1>>
    ELSE IF IsNaN(a) \/ IsNaN(e) THEN NaN
    ELSE IF e[2] = 1 THEN PowInt(a, e[1])
    ELSE IF a[2] = 0 THEN (IF a = NInf THEN NaN ELSE IF e[1] > 0 THEN Inf ELSE I(0))
    ELSE IF a[1] < 0 THEN NaN
    ELSE PowInt(Q(RootNat(a[1], e[2]), RootNat(a[2], e[2])), e[1])

RECURSIVE SumSeq(_)
SumSeq(s) == IF s = <<>> THEN I(0) ELSE Add(s[1], SumSeq(Tail(s)))

\* numpy.nansum: NaN entries count as zero
NanSum(s) == SumSeq([i \in 1..Len(s) |-> IF IsNaN(s[i]) THEN I(0) ELSE s[i]])

\* s[mask]: the entries of s at the indices where keep holds, in order
RECURSIVE Select(_, _, _)
Select(s, keep, i) ==
    IF i > Len(s) THEN <<>>
    ELSE (IF keep[i] THEN <<s[i]>> ELSE <<>>) \o Select(s, keep, i + 1)

Mask(s, keep) == Select(s, keep, 1)

(***************************************************************************)
(* Python strings.                                                         *)
(***************************************************************************)
LowerChars == <<"a","b","c","d","e","f","g","h","i","j","k","l","m",
                "n","o","p","q","r","s","t","u","v","w","x","y","z">>

UpperChars == <<"A","B","C","D","E","F","G","H","I","J","K","L","M",
                "N","O","P","Q","R","S","T","U","V","W","X","Y","Z">>

LowerChar(c) ==
    IF \E i \in 1..26 : UpperChars[i] = c
    THEN LowerChars[CHOOSE i \in 1..26 : UpperChars[i] = c]
    ELSE c

UpperChar(c) ==
    IF \E i \in 1..26 : LowerChars[i] = c
    THEN UpperChars[CHOOSE i \in 1..26 : LowerChars[i] = c]
    ELSE c

\* str.lower()
lower(s) == [i \in 1..Len(s) |-> LowerChar(s[i])]

\* s[:3]
first3(s) == SubSeq(s, 1, Min(3, Len(s)))

str_exponential == <<"e","x","p","o","n","e","n","t","i","a","l">>

str_hyperbolic == <<"h","y","p","e","r","b","o","l","i","c">>

str_harmonic == <<"h","a","r","m","o","n","i","c">>

str_exp == <<"e","x","p">>

str_hyp == <<"h","y","p">>

str_har == <<"h","a","r">>

Capital(s) == [i \in 1..Len(s) |-> IF i = 1 THEN UpperChar(s[i]) ELSE s[i]]

Exponential == Capital(str_exponential)

Hyperbolic == Capital(str_hyperbolic)

Harmonic == Capital(str_harmonic)

(***************************************************************************)
(* class Arps (prodpy/decline/_arpmod.py).                                 *)
(***************************************************************************)
Half == Q(1, 2)

\* Arps.get_mode
get_mode(b) ==
    IF b = I(0) THEN Exponential
    ELSE IF b = I(1) THEN Harmonic
    ELSE Hyperbolic

ModeError == "Available modes are Exponential, Hyperbolic, and Harmonic."

\* get_b comparing the name as given, without lower()
get_b_exact(name) ==
    IF name \in {str_exponential, str_exp} THEN Return(I(0), <<>>)
    ELSE IF name \in {str_hyperbolic, str_hyp} THEN Return(Half, <<>>)
    ELSE IF name \in {str_harmonic, str_har} THEN Return(I(1), <<>>)
    ELSE Return(None, <<ModeError>>)

\* get_b recognizing a name by its first three letters
get_b_prefix(name) ==
    IF first3(lower(name)) = str_exp THEN Return(I(0), <<>>)
    ELSE IF first3(lower(name)) = str_hyp THEN Return(Half, <<>>)
    ELSE IF first3(lower(name)) = str_har THEN Return(I(1), <<>>)
    ELSE Return(None, <<ModeError>>)

\* Arps.get_b: the function falls off its end after logging, returning None
get_b(name) ==
    IF lower(name) \in {str_exponential, str_exp} THEN Return(I(0), <<>>)
    ELSE IF lower(name) \in {str_hyperbolic, str_hyp} THEN Return(Half, <<>>)
    ELSE IF lower(name) \in {str_harmonic, str_har} THEN Return(I(1), <<>>)
    ELSE Return(None, <<ModeError>>)

\* Arps.mode (property)
mode(b) == first3(lower(get_mode(b)))

\* Arps.option
option(m, b) ==
    IF m = None /\ b = None THEN Return(<<Exponential, I(0)>>, <<>>)
    ELSE IF m = None /\ b # None THEN Return(<<get_mode(b), b>>, <<>>)
    ELSE IF m # None /\ b = None
         THEN LET r == get_b(m)
              IN  IF r.kind = "raise" THEN r ELSE Return(<<m, r.val>>, r.log)
    ELSE Return(<<get_mode(b), b>>, <<>>)

\* the elapsed time (numpy.asarray(x) - xi) of one entry
elapsed(x, xi) == Sub(x, xi)

\* frwexp with the sign of the decline lost: u = Di*(x-xi)
frwexp_growth(Di, yi, x, xi) ==
    Return([i \in 1..Len(x) |->
              [form |-> "exp", coef |-> yi,
               u |-> Mul(Di, elapsed(x[i], xi))]], <<>>)

\* Arps.frwexp: yi*exp(u) per entry, u = -Di*(x-xi)
frwexp(Di, yi, x, xi) ==
    Return([i \in 1..Len(x) |->
              [form |-> "exp", coef |-> yi,
               u |-> Neg(Mul(Di, elapsed(x[i], xi)))]], <<>>)

\* Arps.frwhyp: yi/base**expo per entry, base = 1+b*Di*(x-xi), expo = 1./b
frwhyp(Di, yi, x, xi, b) ==
    IF b = I(0) THEN Raise("ZeroDivisionError", <<>>)
    ELSE Return([i \in 1..Len(x) |->
              [form |-> "hyp", coef |-> yi,
               base |-> Add(I(1), Mul(Mul(b, Di), elapsed(x[i], xi))),
               expo |-> Inv(b)]], <<>>)

\* Arps.frwhar: yi/base per entry, base = 1+Di*(x-xi)
frwhar(Di, yi, x, xi) ==
    Return([i \in 1..Len(x) |->
              [form |-> "har", coef |-> yi,
               base |-> Add(I(1), Mul(Di, elapsed(x[i], xi)))]], <<>>)

\* Arps.cumexp: coef*(1-exp(u)) per entry, coef = yi/Di
cumexp(Di, yi, x, xi) ==
    IF Di = I(0) THEN Raise("ZeroDivisionError", <<>>)
    ELSE Return([i \in 1..Len(x) |->
              [form |-> "cumexp", coef |-> Div(yi, Di),
               u |-> Neg(Mul(Di, elapsed(x[i], xi)))]], <<>>)

\* Arps.cumhyp: coef*(1-base**expo) per entry, coef = (yi/Di)/(1-b),
\* expo = 1-1./b
cumhyp(Di, yi, x, xi, b) ==
    IF Di = I(0) \/ b = I(1) \/ b = I(0) THEN Raise("ZeroDivisionError", <<>>)
    ELSE Return([i \in 1..Len(x) |->
              [form |-> "cumhyp", coef |-> Div(Div(yi, Di), Sub(I(1), b)),
               base |-> Add(I(1), Mul(Mul(b, Di), elapsed(x[i], xi))),
               expo |-> Sub(I(1), Inv(b))]], <<>>)

\* Arps.cumhar: coef*log(base) per entry, coef = yi/Di
cumhar(Di, yi, x, xi) ==
    IF Di = I(0) THEN Raise("ZeroDivisionError", <<>>)
    ELSE Return([i \in 1..Len(x) |->
              [form |-> "cumhar", coef |-> Div(yi, Di),
               base |-> Add(I(1), Mul(Di, elapsed(x[i], xi)))]], <<>>)

\* Arps.invexp: a static method whose first statement reads the name self
invexp(x, y, xi) == Raise("NameError", <<>>)

\* Arps.invhyp: a static method whose first statement reads the name self
invhyp(x, y, xi, b) == Raise("NameError", <<>>)

\* Arps.invhar: a static method whose first statement reads the name self
invhar(x, y, xi) == Raise("NameError", <<>>)

str_frw == <<"f","r","w">>

str_cum == <<"c","u","m">>

str_inv == <<"i","n","v">>

\* getattr(self, name)(*inp) on an Arps instance: the method of that name
\* applied to the positional arguments; the exponent of the hyp methods
\* defaults to 0.5
getattr_call(name, inp) ==
    IF name \in {str_frw \o str_exp, str_cum \o str_exp, str_frw \o str_har,
                 str_cum \o str_har, str_inv \o str_exp, str_inv \o str_har}
    THEN IF Len(inp) # (IF SubSeq(name, 1, 3) = str_inv THEN 3 ELSE 4)
         THEN Raise("TypeError", <<>>)
         ELSE IF name = str_frw \o str_exp THEN frwexp(inp[1], inp[2], inp[3], inp[4])
         ELSE IF name = str_frw \o str_har THEN frwhar(inp[1], inp[2], inp[3], inp[4])
         ELSE IF name = str_cum \o str_exp THEN cumexp(inp[1], inp[2], inp[3], inp[4])
         ELSE IF name = str_cum \o str_har THEN cumhar(inp[1], inp[2], inp[3], inp[4])
         ELSE IF name = str_inv \o str_exp THEN invexp(inp[1], inp[2], inp[3])
         ELSE invhar(inp[1], inp[2], inp[3])
    ELSE IF name = str_frw \o str_hyp
    THEN frwhyp(inp[1], inp[2], inp[3], inp[4], IF Len(inp) > 4 THEN inp[5] ELSE Half)
    ELSE IF name = str_cum \o str_hyp
    THEN cumhyp(inp[1], inp[2], inp[3], inp[4], IF Len(inp) > 4 THEN inp[5] ELSE Half)
    ELSE IF name = str_inv \o str_hyp
    THEN invhyp(inp[1], inp[2], inp[3], IF Len(inp) > 3 THEN inp[4] ELSE Half)
    ELSE Raise("AttributeError", <<>>)

\* frw never passing the exponent on, so that frwhyp uses its default
frw_default_b(b, Di, yi, x, xi) ==
    getattr_call(str_frw \o mode(b), <<Di, yi, x, xi>>)

\* Arps.frw
frw(b, Di, yi, x, xi) ==
    LET inp == IF b = I(0) \/ b = I(1) THEN <<Di, yi, x, xi>> ELSE <<Di, yi, x, xi, b>>
    IN  getattr_call(str_frw \o mode(b), inp)

\* Arps.cum
cum(b, Di, yi, x, xi) ==
    LET inp == IF b = I(0) \/ b = I(1) THEN <<Di, yi, x, xi>> ELSE <<Di, yi, x, xi, b>>
    IN  getattr_call(str_cum \o mode(b), inp)

\* Arps.inv
inv(b, x, y, xi) ==
    LET inp == IF b = I(0) \/ b = I(1) THEN <<x, y, xi>> ELSE <<x, y, xi, b>>
    IN  getattr_call(str_inv \o mode(b), inp)

\* Arps.shift
shift(x, y, xi) ==
    IF xi = None THEN <<x, y>>
    ELSE LET keep == [i \in 1..Len(x) |-> Ge(x[i], xi)]
             xs == Mask(x, keep)
         IN  <<[i \in 1..Len(xs) |-> Sub(xs[i], xi)], Mask(y, keep)>>

\* Arps.nzero
nzero(x, y) ==
    LET keep == [i \in 1..Len(y) |-> ~IsNaN(y[i]) /\ y[i] # I(0)]
    IN  <<Mask(x, keep), Mask(y, keep)>>

\* the mean of a non-empty sequence of finite numbers
Mean(s) == Div(SumSeq(s), I(Len(s)))

\* scipy.stats.linregress(x, y) as the engine uses it: <<slope, intercept>>
\* of the least-squares line; it raises ValueError on empty input and when
\* all x are identical, and yields NaN when an input is NaN
linregress(x, y) ==
    IF Len(x) = 0 \/ Len(y) = 0 THEN Raise("ValueError", <<>>)
    ELSE IF Len(x) # Len(y) THEN Raise("ValueError", <<>>)
    ELSE IF \A i \in 1..Len(x) : x[i] = x[1] THEN Raise("ValueError", <<>>)
    ELSE LET xm == Mean(x)
             ym == Mean(y)
             sxx == SumSeq([i \in 1..Len(x) |-> Mul(Sub(x[i], xm), Sub(x[i], xm))])
             sxy == SumSeq([i \in 1..Len(x) |-> Mul(Sub(x[i], xm), Sub(y[i], ym))])
             slope == Div(sxy, sxx)
         IN  Return(<<slope, Sub(ym, Mul(slope, xm))>>, <<>>)

\* Arps.regress: an exception of linregress is logged and None is returned
regress(x, y) ==
    LET r == linregress(x, y)
    IN  IF r.kind = "raise" THEN Return(None, <<r.exc>>) ELSE r

\* Arps.rsquared
rsquared(ycal, yobs) ==
    LET n == Len(yobs)
        res == [i \in 1..n |-> Sub(yobs[i], ycal[i])]
        ssres == NanSum([i \in 1..n |-> Mul(res[i], res[i])])
        seen == Mask(yobs, [i \in 1..n |-> ~IsNaN(yobs[i])])
        nanmean == Div(SumSeq(seen), I(Len(seen)))
        dev == [i \in 1..n |-> Sub(yobs[i], nanmean)]
        sstot == NanSum([i \in 1..n |-> Mul(dev[i], dev[i])])
    IN  Return(Sub(I(1), Div(ssres, sstot)), <<>>)

(***************************************************************************)
(* class Hyperbolic (prodpy/decline/arps/_hyperbolic.py).                  *)
(***************************************************************************)
\* GenModel.xshift, as Hyperbolic.regress uses it
xshift(x, y, xi) == shift(x, y, xi)

\* GenModel.regress, as Hyperbolic.regress reaches it through super()
GenModel_regress(x, y) == regress(x, y)

\* the arguments Hyperbolic.regress hands to the least-squares step:
\* <<x, yobs, numpy.power(1/yobs, xp)>> after the shift and the yobs != 0 mask
lsq_input(xp, x, yobs, xi) ==
    LET sh == xshift(x, yobs, xi)
        keep == [i \in 1..Len(sh[2]) |-> sh[2][i] # I(0)]
        xs == Mask(sh[1], keep)
        ys == Mask(sh[2], keep)
    IN  <<xs, ys, [i \in 1..Len(ys) |-> Pow(Inv(ys[i]), xp)]>>

\* Hyperbolic.regress.  The right-hand side of "Di,yi = ..." is the tuple
\* (0, (0 if linear is None else slope/intercept/xp), intercept**(-1/xp)):
\* its third element reads linear.intercept also when linear is None, and
\* its three values do not unpack into the two targets.
Hyperbolic_regress(xp, x, yobs, xi) ==
    LET inp == lsq_input(xp, x, yobs, xi)
        linear == GenModel_regress(inp[1], inp[3])
    IN  IF linear.val = None
        THEN Raise("AttributeError", linear.log)
        ELSE IF xp = I(0)
        THEN Raise("ZeroDivisionError", linear.log)
        ELSE Raise("ValueError", linear.log)

(***************************************************************************)
(* class Analysis (prodpy/_analysis.py) and its collaborators.  A frame is *)
(* [dates |-> <<day numbers>>, rates |-> <<rates>>]; a model is            *)
(* [b, Di, yi, xi, date0]; a table is a sequence of rows                   *)
(* [index, dates, predicted].                                              *)
(***************************************************************************)
\* TimeSpan.get for a daily range of the given start and number of periods
TimeSpan_get(start, periods) == [i \in 1..periods |-> start + i - 1]

\* TimeSpan.days: elapsed days from the anchor to each held date
TimeSpan_days(dates, date0) == [i \in 1..Len(dates) |-> I(dates[i] - date0)]

\* TimeSpan.iswithin: inclusive membership in an optional window
TimeSpan_iswithin(dates, window) ==
    [i \in 1..Len(dates) |->
        window = <<>> \/ (window[1] <= dates[i] /\ dates[i] <= window[2])]

\* TimeSpan.mindate of a non-empty span
TimeSpan_mindate(dates) ==
    CHOOSE d \in {dates[i] : i \in 1..Len(dates)} :
        \A j \in 1..Len(dates) : d <= dates[j]

\* the result of a fit that found no usable parameters
Sentinel(date0) == [linear |-> None, Di |-> I(0), yi |-> I(0), date0 |-> date0]

\* Optimize(b=b).fit(days, rates, date0): drop the non-finite and the zero
\* rates, regress rates**(-b) on days, transform back; the sentinel when
\* fewer than two points remain or least squares fails
Optimize_fit(b, days, rates, date0) ==
    LET keep == [i \in 1..Len(rates) |-> IsFinite(rates[i]) /\ rates[i] # I(0)]
        x == Mask(days, keep)
        y == Mask(rates, keep)
        linear == regress(x, [i \in 1..Len(y) |-> Pow(Inv(y[i]), b)])
    IN  IF Len(x) < 2 \/ linear.val = None
        THEN Return(Sentinel(date0), linear.log)
        ELSE Return([linear |-> linear.val,
                     Di |-> Div(linear.val[1], Mul(linear.val[2], b)),
                     yi |-> Pow(linear.val[2], Neg(Inv(b))),
                     date0 |-> date0], <<>>)

\* Analysis.fit
fit(frame, window, date0, b) ==
    LET bools == TimeSpan_iswithin(frame.dates, window)
        dates == Mask(frame.dates, bools)
        rates == Mask(frame.rates, bools)
        d0 == IF date0 = None THEN TimeSpan_mindate(dates) ELSE date0[1]
        days == TimeSpan_days(dates, d0)
    IN  Optimize_fit(b, days, rates, d0)

\* the methods class Analysis defines
Analysis_methods == {"fit", "mfit", "run", "mrun"}

\* self.<name>(frame, *args, **kwargs) on an Analysis instance
Analysis_call(name, frame, window, date0, b) ==
    IF name \notin Analysis_methods THEN Raise("AttributeError", <<>>)
    ELSE IF name = "fit" THEN fit(frame, window, date0, b)
    ELSE Raise("TypeError", <<>>)

\* the dict comprehension {item: self.<name>(frame, ...) for item, frame in
\* view} from entry k on, acc holding the entries built so far; an exception
\* of one call ends the comprehension
RECURSIVE comprehension(_, _, _, _, _, _, _)
comprehension(name, view, k, acc, window, date0, b) ==
    IF k > Len(view) THEN Return(acc, <<>>)
    ELSE LET r == Analysis_call(name, view[k][2], window, date0, b)
         IN  IF r.kind = "raise" THEN r
             ELSE comprehension(name, view, k + 1,
                                Append(acc, <<view[k][1], r.val>>),
                                window, date0, b)

\* Analysis.mfit: the method it calls on self is named ufit
mfit(view, window, date0, b) ==
    comprehension("ufit", view, 1, <<>>, window, date0, b)

\* Curve(model).run(days): the forward evaluation of the model
Curve_run(model, days) == frw(model.b, model.Di, model.yi, days, model.xi)

\* curve.set(dates=..., heads=...) and curve.frame
Curve_frame(dates, predicted) ==
    [i \in 1..Len(dates) |->
        [index |-> i - 1, dates |-> dates[i], predicted |-> predicted[i]]]

\* Analysis.run
run(model, start, periods) ==
    LET dates == TimeSpan_get(start, periods)
        days == TimeSpan_days(dates, model.date0)
        curve == Curve_run(model, days)
    IN  IF curve.kind = "raise" THEN curve
        ELSE Return(Curve_frame(dates, curve.val), <<>>)

\* DataFrame.reset_index(drop=True)
reset_index(rows) == [i \in 1..Len(rows) |-> [rows[i] EXCEPT !.index = i - 1]]

\* the loop of Analysis.mrun from entry k on; frame is the local variable,
\* bound only once the first entry has been processed
RECURSIVE mrun_loop(_, _, _, _)
mrun_loop(models, k, frame, dates) ==
    IF k > Len(models)
    THEN IF ~frame.bound THEN Raise("UnboundLocalError", <<>>)
         ELSE Return(reset_index(frame.rows), <<>>)
    ELSE LET model == models[k][2]
             days == TimeSpan_days(dates, model.date0)
             curve == Curve_run(model, days)
         IN  IF curve.kind = "raise" THEN curve
             ELSE mrun_loop(models, k + 1,
                    [bound |-> TRUE,
                     rows |-> IF k = 1 THEN Curve_frame(dates, curve.val)
                              ELSE frame.rows \o Curve_frame(dates, curve.val)],
                    dates)

\* Analysis.mrun
mrun(models, start, periods) ==
    mrun_loop(models, 1, [bound |-> FALSE, rows |-> <<>>],
              TimeSpan_get(start, periods))

(***************************************************************************)
(* Inputs.                                                                 *)
(***************************************************************************)
\* exponents handed to the constructor and to get_mode
BSet == {Q(-1, 2), I(0), Q(1, 3), Half, I(1), I(2)}

DiSet == {I(0), Half, I(1)}

YiSet == {I(1), I(2)}

XGrid == {I(k) : k \in -MaxX..MaxX}

XArrays == [1..2 -> XGrid]

XiSet == {I(0), I(1)}

\* elapsed times and rates of the series handed to the regressions
XVals == {I(0), I(1), I(2)}

YVals == {I(0), NaN, Inf, I(1), I(4)}

Series == UNION {[1..k -> XVals] \X [1..k -> YVals] : k \in 0..MaxLen}

\* the series handed to Arps.inv
ShortSeries == {s \in Series : Len(s[1]) <= 1}

XiOpt == {None, I(0), I(1)}

\* exponents of the Hyperbolic instances
XpSet == {Half, I(1)}

\* predicted and observed arrays handed to rsquared
RVals == {NaN, I(0), I(1), I(2)}

Observations == UNION {[1..k -> RVals] \X [1..k -> RVals] : k \in 0..MaxObs}

\* the frames of the items of a view: daily dates from day 0
FitRates == {I(0), I(1), I(4)}

FramesOfLen(k) == {[dates |-> [i \in 1..k |-> i - 1], rates |-> r] : r \in [1..k -> FitRates]}

AllFrames == UNION {FramesOfLen(k) : k \in 1..MaxLen}

\* a view yields (item, frame) pairs; the items are numbered in order
Views ==
    UNION {{[k \in 1..n |-> <<k, f[k]>>] : f \in [1..n -> AllFrames]} :
            n \in 0..MaxItems}

Windows == {<<>>, <<0, 1>>}

\* the optional anchor date: None, or <<d>> for the day d
Date0Opt == {None, <<0>>}

\* fitted models, each with its own anchor date
Models ==
    [b : {I(0), Half, I(1)}, Di : {Half}, yi : {I(1), I(2)}, xi : {I(0)},
     date0 : {0, 1}]

\* a mapping of models in insertion order
ModelDicts ==
    UNION {{[k \in 1..n |-> <<k, m[k]>>] : m \in [1..n -> Models]} :
            n \in 0..MaxItems}

Starts == {0, 2}

\* every spelling of s in upper and lower case letters
Variants(s) ==
    {[i \in 1..Len(s) |-> IF m[i] THEN UpperChar(s[i]) ELSE s[i]] :
        m \in [1..Len(s) -> BOOLEAN]}

RecognizedNames ==
    UNION {Variants(s) : s \in {str_exponential, str_hyperbolic, str_harmonic,
                                str_exp, str_hyp, str_har}}

OtherNames ==
    {<<"l","i","n","e","a","r">>, <<"e","x","p","o">>, <<"h","y","p","e","r">>,
     <<"H","a","r","m">>, <<"e","x">>, <<"E","x","p"," ">>,
     <<"h","a","r","m","o","n","i","c","s">>, <<"0">>}

NameSet == RecognizedNames \cup OtherNames

\* the names handed to option: the six lower-case names, the entries of
\* Arps.modes, their upper-case three-letter forms, and the other names
OptionNames ==
    {str_exponential, str_hyperbolic, str_harmonic, str_exp, str_hyp, str_har,
     Exponential, Hyperbolic, Harmonic,
     <<"E","X","P">>, <<"H","Y","P">>, <<"H","A","R">>} \cup OtherNames

(***************************************************************************)
(* Calls on Arps.                                                          *)
(***************************************************************************)
\* no call has been made on the class or on an instance of it
Fresh == op = "none"

\* an instance has been constructed and no method called on it yet
Constructed == op = "__init__"

\* Arps.__init__
Arps_init(b) ==
    /\ Fresh
    /\ self_b' = b
    /\ op' = "__init__"
    /\ arg' = [b |-> b]
    /\ ret' = Done
    /\ UNCHANGED self_xp

Call_get_mode(b) ==
    /\ Fresh
    /\ op' = "get_mode"
    /\ arg' = [b |-> b]
    /\ ret' = As_name(Return(get_mode(b), <<>>))
    /\ UNCHANGED <<self_b, self_xp>>

Call_get_b(name) ==
    /\ Fresh
    /\ op' = "get_b"
    /\ arg' = [mode |-> name]
    /\ ret' = As_b(get_b(name))
    /\ UNCHANGED <<self_b, self_xp>>

Call_option(m, b) ==
    /\ Constructed
    /\ op' = "option"
    /\ arg' = [mode |-> m, b |-> b]
    /\ ret' = As_pair(option(m, b))
    /\ UNCHANGED <<self_b, self_xp>>

Call_frw(Di, yi, x, xi) ==
    /\ Constructed
    /\ op' = "frw"
    /\ arg' = [Di |-> Di, yi |-> yi, x |-> x, xi |-> xi]
    /\ ret' = As_y(frw(self_b, Di, yi, x, xi))
    /\ UNCHANGED <<self_b, self_xp>>

Call_cum(Di, yi, x, xi) ==
    /\ Constructed
    /\ op' = "cum"
    /\ arg' = [Di |-> Di, yi |-> yi, x |-> x, xi |-> xi]
    /\ ret' = As_Np(cum(self_b, Di, yi, x, xi))
    /\ UNCHANGED <<self_b, self_xp>>

Init ==
    /\ self_b = None
    /\ self_xp = None
    /\ op = "none"
    /\ arg = NoArg
    /\ ret = NoCall

Next ==
    \/ Fresh /\ \E b \in BSet : Arps_init(b)
    \/ Fresh /\ \E b \in BSet : Call_get_mode(b)
    \/ Fresh /\ \E name \in NameSet : Call_get_b(name)
    \/ Constructed /\ \E m \in {None} \cup OptionNames, b \in {None} \cup BSet :
            Call_option(m, b)
    \/ Constructed /\ \E Di \in DiSet, yi \in YiSet, x \in XArrays, xi \in XiSet :
            Call_frw(Di, yi, x, xi)
    \/ Constructed /\ \E Di \in DiSet, yi \in YiSet, x \in XArrays, xi \in XiSet :
            Call_cum(Di, yi, x, xi)

Spec == Init /\ [][Next]_vars

(***************************************************************************)
(* Calls on the regression and scoring operations.                         *)
(***************************************************************************)
\* Hyperbolic.__init__
Hyperbolic_init(xp) ==
    /\ Fresh
    /\ self_xp' = xp
    /\ op' = "Hyperbolic.__init__"
    /\ arg' = [xp |-> xp]
    /\ ret' = Done
    /\ UNCHANGED self_b

Call_Hyperbolic_regress(x, yobs, xi) ==
    /\ op = "Hyperbolic.__init__"
    /\ op' = "Hyperbolic.regress"
    /\ arg' = [x |-> x, yobs |-> yobs, xi |-> xi]
    /\ ret' = As_fitting(Hyperbolic_regress(self_xp, x, yobs, xi),
                         lsq_input(self_xp, x, yobs, xi))
    /\ UNCHANGED <<self_b, self_xp>>

Call_inv(x, y, xi) ==
    /\ Constructed
    /\ op' = "inv"
    /\ arg' = [x |-> x, y |-> y, xi |-> xi]
    /\ ret' = As_result(inv(self_b, x, y, xi))
    /\ UNCHANGED <<self_b, self_xp>>

Call_shift(x, y, xi) ==
    /\ Fresh
    /\ op' = "shift"
    /\ arg' = [x |-> x, y |-> y, xi |-> xi]
    /\ ret' = As_xy(Return(shift(x, y, xi), <<>>))
    /\ UNCHANGED <<self_b, self_xp>>

Call_nzero(x, y) ==
    /\ Fresh
    /\ op' = "nzero"
    /\ arg' = [x |-> x, y |-> y]
    /\ ret' = As_xy(Return(nzero(x, y), <<>>))
    /\ UNCHANGED <<self_b, self_xp>>

Call_regress(x, y) ==
    /\ Fresh
    /\ op' = "regress"
    /\ arg' = [x |-> x, y |-> y]
    /\ ret' = As_linear(regress(x, y))
    /\ UNCHANGED <<self_b, self_xp>>

Call_rsquared(ycal, yobs) ==
    /\ Fresh
    /\ op' = "rsquared"
    /\ arg' = [ycal |-> ycal, yobs |-> yobs]
    /\ ret' = As_R2(rsquared(ycal, yobs))
    /\ UNCHANGED <<self_b, self_xp>>

NextRegress ==
    \/ Fresh /\ \E xp \in XpSet : Hyperbolic_init(xp)
    \/ op = "Hyperbolic.__init__" /\ \E s \in Series, xi \in XiOpt :
            Call_Hyperbolic_regress(s[1], s[2], xi)
    \/ Fresh /\ \E b \in BSet : Arps_init(b)
    \/ Constructed /\ \E s \in ShortSeries, xi \in XiOpt : Call_inv(s[1], s[2], xi)
    \/ Fresh /\ \E s \in Series, xi \in XiOpt : Call_shift(s[1], s[2], xi)
    \/ Fresh /\ \E s \in Series : Call_nzero(s[1], s[2])
    \/ Fresh /\ \E s \in Series : Call_regress(s[1], s[2])

SpecRegress == Init /\ [][NextRegress]_vars

NextScore ==
    Fresh /\ \E s \in Observations : Call_rsquared(s[1], s[2])

SpecScore == Init /\ [][NextScore]_vars

(***************************************************************************)
(* Calls on Analysis.                                                      *)
(***************************************************************************)
Call_fit(frame, window, date0, b) ==
    /\ Fresh
    /\ op' = "fit"
    /\ arg' = [frame |-> frame, window |-> window, date0 |-> date0, b |-> b]
    /\ ret' = As_fitted(fit(frame, window, date0, b))
    /\ UNCHANGED <<self_b, self_xp>>

Call_mfit(view, window, date0, b) ==
    /\ Fresh
    /\ op' = "mfit"
    /\ arg' = [view |-> view, window |-> window, date0 |-> date0, b |-> b]
    /\ ret' = As_fits(mfit(view, window, date0, b))
    /\ UNCHANGED <<self_b, self_xp>>

Call_run(model, start, periods) ==
    /\ Fresh
    /\ op' = "run"
    /\ arg' = [model |-> model, start |-> start, periods |-> periods]
    /\ ret' = As_frame(run(model, start, periods))
    /\ UNCHANGED <<self_b, self_xp>>

Call_mrun(models, start, periods) ==
    /\ Fresh
    /\ op' = "mrun"
    /\ arg' = [models |-> models, start |-> start, periods |-> periods]
    /\ ret' = As_frame(mrun(models, start, periods))
    /\ UNCHANGED <<self_b, self_xp>>

NextAnalysis ==
    \/ Fresh /\ \E frame \in AllFrames, window \in Windows, date0 \in Date0Opt,
                   b \in XpSet : Call_fit(frame, window, date0, b)
    \/ Fresh /\ \E view \in Views, window \in Windows, date0 \in Date0Opt,
                   b \in XpSet : Call_mfit(view, window, date0, b)
    \/ Fresh /\ \E model \in Models, start \in Starts, periods \in 0..MaxPeriods :
            Call_run(model, start, periods)
    \/ Fresh /\ \E models \in ModelDicts, start \in Starts, periods \in 0..MaxPeriods :
            Call_mrun(models, start, periods)

SpecAnalysis == Init /\ [][NextAnalysis]_vars

(***************************************************************************)
(* Reading the results.                                                    *)
(***************************************************************************)
Zero == I(0)

One == I(1)

InUnitInterval(b) == Ge(b, Zero) /\ Ge(One, b)

\* the family a mode name stands for: its first three letters, lower case
Family(name) == first3(lower(name))

\* the number a forward closed form denotes, for the rational forms
Value(v) ==
    IF v.form = "har" THEN Div(v.coef, v.base)
    ELSE Div(v.coef, Pow(v.base, v.expo))

\* v > w for two entries of one forward evaluation; exp is increasing, so
\* coef*exp(u1) > coef*exp(u2) is decided by the sign of coef and by u1, u2
ValGt(v, w) ==
    IF v.form = "exp"
    THEN \/ Gt(v.coef, Zero) /\ Gt(v.u, w.u)
         \/ Lt(v.coef, Zero) /\ Lt(v.u, w.u)
    ELSE Gt(Value(v), Value(w))

\* 1 + b*Di*(x-xi), the base of the power in the forward closed forms
DeclineBase(b, Di, x, xi) == Add(One, Mul(Mul(b, Di), Sub(x, xi)))

(***************************************************************************)
(* C3: get_mode(b) is Exponential exactly when b = 0, Harmonic exactly     *)
(* when b = 1 and Hyperbolic otherwise; frw and cum evaluate the           *)
(* exponential closed form iff b = 0, the harmonic one iff b = 1, and      *)
(* otherwise the hyperbolic one with the instance's own b as exponent.     *)
(***************************************************************************)
C3_FamilyDispatch ==
    /\ op = "get_mode" =>
        /\ (ret.name = Exponential) <=> (arg.b = Zero)
        /\ (ret.name = Harmonic) <=> (arg.b = One)
        /\ (ret.name = Hyperbolic) <=> (arg.b \notin {Zero, One})
    /\ (op = "frw" /\ ret.kind = "return") =>
        \A i \in 1..Len(arg.x) :
            /\ (ret.y[i].form = "exp") <=> (self_b = Zero)
            /\ (ret.y[i].form = "har") <=> (self_b = One)
            /\ (ret.y[i].form = "hyp") <=> (self_b \notin {Zero, One})
            /\ ret.y[i].form = "hyp" =>
                /\ ret.y[i].expo = Inv(self_b)
                /\ ret.y[i].base = DeclineBase(self_b, arg.Di, arg.x[i], arg.xi)
    /\ (op = "cum" /\ ret.kind = "return") =>
        \A i \in 1..Len(arg.x) :
            /\ (ret.Np[i].form = "cumexp") <=> (self_b = Zero)
            /\ (ret.Np[i].form = "cumhar") <=> (self_b = One)
            /\ (ret.Np[i].form = "cumhyp") <=> (self_b \notin {Zero, One})
            /\ ret.Np[i].form = "cumhyp" =>
                /\ ret.Np[i].expo = Sub(One, Inv(self_b))
                /\ ret.Np[i].base = DeclineBase(self_b, arg.Di, arg.x[i], arg.xi)
    /\ op = "frw" => ret.kind = "return"

C3_Witness ==
    /\ op = "frw"
    /\ self_b = Q(1, 3)
    /\ ret.kind = "return"
    /\ ret.y[1].form = "hyp"
    /\ ret.y[1].expo = I(3)

(***************************************************************************)
(* C6: get_mode(0) is Exponential and get_mode(1) is Harmonic;             *)
(* get_b(get_mode(b)) = b for b in {0, 0.5, 1}; and get_mode(get_b(m))     *)
(* names the family of m for every recognized name m, in full or           *)
(* three-letter form and in any letter case.                               *)
(***************************************************************************)
C6_LookupRoundTrip ==
    /\ (op = "get_mode" /\ arg.b = Zero) => ret.name = Exponential
    /\ (op = "get_mode" /\ arg.b = One) => ret.name = Harmonic
    /\ (op = "get_mode" /\ arg.b \in {Zero, Half, One}) =>
        /\ get_b(ret.name).kind = "return"
        /\ get_b(ret.name).val = arg.b
    /\ (op = "get_b" /\ arg.mode \in RecognizedNames) =>
        /\ ret.kind = "return"
        /\ ret.b # None
        /\ Family(get_mode(ret.b)) = Family(arg.mode)

C6_Witness ==
    /\ op = "get_b"
    /\ arg.mode = <<"H","y","P">>
    /\ ret.b = Half

(***************************************************************************)
(* C7: get_b with a name that is not a recognized mode name logs an error  *)
(* and returns without raising, and what it returns is none of the valid   *)
(* exponents 0, 0.5, 1; option(mode=name) with only such a name given      *)
(* returns without raising.                                                *)
(***************************************************************************)
C7_UnrecognizedName ==
    /\ (op = "get_b" /\ arg.mode \notin RecognizedNames) =>
        /\ ret.kind = "return"
        /\ ret.log = <<ModeError>>
        /\ ret.b \notin {Zero, Half, One}
    /\ (op = "option" /\ arg.b = None /\ arg.mode # None
            /\ arg.mode \notin RecognizedNames) =>
        /\ ret.kind = "return"
        /\ ret.pair[1] = arg.mode
        /\ ret.pair[2] \notin {Zero, Half, One}

C7_Witness ==
    /\ op = "option"
    /\ arg.b = None
    /\ arg.mode = <<"l","i","n","e","a","r">>
    /\ ret.kind = "return"
    /\ ret.log = <<ModeError>>

(***************************************************************************)
(* C8: an exponent b outside [0, 1] is an invalid parameter: constructing  *)
(* a model with it is reported as an error, no forward or cumulative       *)
(* evaluation is dispatched for it, and get_mode does not call it          *)
(* Hyperbolic.                                                             *)
(***************************************************************************)
C8_ExponentOutsideUnitIntervalRejected ==
    /\ (op = "__init__" /\ ~InUnitInterval(arg.b)) =>
        (ret.kind = "raise" \/ ret.log # <<>>)
    /\ (op \in {"frw", "cum", "inv"} /\ ~InUnitInterval(self_b)) =>
        (ret.kind = "raise" /\ ret.exc = "InvalidParameter")
    /\ (op = "get_mode" /\ ~InUnitInterval(arg.b)) => ret.name # Hyperbolic

(***************************************************************************)
(* C9 as stated: for b in [0, 1], Di > 0, yi > 0 and any two elapsed times *)
(* x1 < x2, also before the origin xi, forward(x1) > forward(x2).          *)
(***************************************************************************)
C9_ForwardDecreasingEverywhere ==
    (op = "frw" /\ InUnitInterval(self_b) /\ Gt(arg.Di, Zero) /\ Gt(arg.yi, Zero)) =>
        /\ ret.kind = "return"
        /\ \A i, j \in 1..Len(arg.x) :
            Lt(arg.x[i], arg.x[j]) => ValGt(ret.y[i], ret.y[j])

(***************************************************************************)
(* C9 amended: for b in [0, 1], Di > 0, yi > 0 and any two elapsed times   *)
(* x1 < x2 with 1 + b*Di*(x1 - xi) > 0 (every x1 when b = 0, every         *)
(* x1 >= xi, and the times before xi down to the pole xi - 1/(b*Di)),      *)
(* forward(x1) > forward(x2).                                              *)
(***************************************************************************)
C9_ForwardDecreasingRightOfPole ==
    (op = "frw" /\ InUnitInterval(self_b) /\ Gt(arg.Di, Zero) /\ Gt(arg.yi, Zero)) =>
        /\ ret.kind = "return"
        /\ \A i, j \in 1..Len(arg.x) :
            (/\ Lt(arg.x[i], arg.x[j])
             /\ Gt(DeclineBase(self_b, arg.Di, arg.x[i], arg.xi), Zero))
                => ValGt(ret.y[i], ret.y[j])

C9_Witness ==
    /\ op = "frw"
    /\ self_b = Half
    /\ arg.Di = Half
    /\ arg.yi = I(2)
    /\ arg.xi = One
    /\ arg.x = <<I(-2), I(3)>>
    /\ ret.kind = "return"
    /\ Value(ret.y[1]) = I(32)
    /\ Value(ret.y[2]) = Q(8, 9)

(***************************************************************************)
(* C1: group fitting isolates failures: mfit completes for every view,     *)
(* returns an entry for every item in the order of the view, gives an item *)
(* whose fit fails the sentinel instead of raising, and gives every other  *)
(* item the result of fitting it alone.                                    *)
(***************************************************************************)
C1_GroupFitIsolatesFailures ==
    op = "mfit" =>
        /\ ret.kind = "return"
        /\ Len(ret.fits) = Len(arg.view)
        /\ \A k \in 1..Len(arg.view) :
            LET alone == fit(arg.view[k][2], arg.window, arg.date0, arg.b)
            IN  /\ ret.fits[k][1] = arg.view[k][1]
                /\ ret.fits[k][2] = IF alone.kind = "raise"
                                    THEN Sentinel(ret.fits[k][2].date0)
                                    ELSE alone.val

(***************************************************************************)
(* C2: a regression never raises; when its least-squares step yields no    *)
(* linear result it returns linear absent and the sentinel Di = 0, yi = 0, *)
(* and when the linear result is present (Di, yi) is its inverse           *)
(* transform, for the hyperbolic family Di = slope/(intercept*b) and       *)
(* yi = intercept^(-1/b).                                                  *)
(***************************************************************************)
C2_RegressionFailurePolicy ==
    /\ op = "Hyperbolic.regress" =>
        LET linear == regress(ret.lsq[1], ret.lsq[3]).val
        IN  /\ ret.kind = "return"
            /\ ret.result.linear = linear
            /\ linear = None =>
                (ret.result.Di = Zero /\ ret.result.yi = Zero)
            /\ linear # None =>
                /\ ret.result.Di = Div(linear[1], Mul(linear[2], self_xp))
                /\ ret.result.yi = Pow(linear[2], Neg(Inv(self_xp)))
    /\ op = "inv" =>
        /\ ret.kind = "return"
        /\ ret.result.linear = None => (ret.result.Di = Zero /\ ret.result.yi = Zero)

(***************************************************************************)
(* C4: mrun returns, for every mapping of models and every requested date  *)
(* range, the per-model forecast tables concatenated in the insertion      *)
(* order of the mapping: each model evaluated at the requested dates with  *)
(* elapsed days counted from its own date0, no row dropped, so that the    *)
(* row count is the number of models times the number of dates; for a      *)
(* one-model mapping the result is run of that model.                      *)
(***************************************************************************)
C4_GroupForecastConcatenates ==
    op = "mrun" =>
        LET n == Len(arg.models)
            p == arg.periods
            date(j) == arg.start + j - 1
            single(k) == run(arg.models[k][2], arg.start, p)
        IN  /\ ret.kind = "return"
            /\ Len(ret.frame) = n * p
            /\ \A k \in 1..n : \A j \in 1..p :
                LET row == ret.frame[(k - 1) * p + j]
                    m == arg.models[k][2]
                IN  /\ row.index = (k - 1) * p + j - 1
                    /\ row.dates = date(j)
                    /\ row.predicted =
                        frw(m.b, m.Di, m.yi, <<I(date(j) - m.date0)>>, m.xi).val[1]
                    /\ row.predicted = single(k).val[j].predicted
            /\ n = 1 => ret.frame = single(1).val

(***************************************************************************)
(* C5: rsquared leaves an index at which ycal or yobs is NaN out of both   *)
(* sums: the residual sum, the total sum and the mean range over the       *)
(* indices at which both arrays are not NaN.                               *)
(***************************************************************************)
C5_RsquaredExcludesNaNOnBothSides ==
    op = "rsquared" =>
        LET n == Len(arg.yobs)
            both == [i \in 1..n |-> ~IsNaN(arg.ycal[i]) /\ ~IsNaN(arg.yobs[i])]
            obs == Mask(arg.yobs, both)
            cal == Mask(arg.ycal, both)
            mean == Div(SumSeq(obs), I(Len(obs)))
            ssres == SumSeq([i \in 1..Len(obs) |->
                        Mul(Sub(obs[i], cal[i]), Sub(obs[i], cal[i]))])
            sstot == SumSeq([i \in 1..Len(obs) |->
                        Mul(Sub(obs[i], mean), Sub(obs[i], mean))])
        IN  /\ ret.kind = "return"
            /\ ret.R2 = Sub(One, Div(ssres, sstot))

(***************************************************************************)
(* C10: the pairs a regression hands to least squares are the input pairs  *)
(* with y finite and non-zero and, when xi is given, x >= xi, in their     *)
(* order, x re-based to x - xi; no zero or non-finite y reaches the        *)
(* transform; with fewer than two such pairs the regression returns an     *)
(* absent linear result.                                                   *)
(***************************************************************************)
C10_CleaningBeforeRegression ==
    op = "Hyperbolic.regress" =>
        LET n == Len(arg.x)
            usable == [i \in 1..n |->
                        /\ IsFinite(arg.yobs[i])
                        /\ arg.yobs[i] # Zero
                        /\ (arg.xi = None \/ Ge(arg.x[i], arg.xi))]
            xs == Mask(arg.x, usable)
            ys == Mask(arg.yobs, usable)
            rebased == [i \in 1..Len(xs) |->
                        IF arg.xi = None THEN xs[i] ELSE Sub(xs[i], arg.xi)]
        IN  /\ ret.lsq[1] = rebased
            /\ ret.lsq[2] = ys
            /\ \A i \in 1..Len(ret.lsq[2]) :
                IsFinite(ret.lsq[2][i]) /\ ret.lsq[2][i] # Zero
            /\ Len(ys) < 2 => (ret.kind = "return" /\ ret.result.linear = None)

====
